---- MODULE Spec2Model ----
(***************************************************************************)
(* A model of the menu bar model (src/js/models/menubar.js) and of the     *)
(* layer commands (src/js/actions/layers.js) of spaces-design.             *)
(*                                                                         *)
(* JavaScript strings that the code splits, joins or prefix-tests are      *)
(* sequences of tokens; the separators "." and "," are tokens of their     *)
(* own, so that split, join and startsWith are computed, not assumed.      *)
(* JavaScript values of differing type are tagged records (field t).       *)
(***************************************************************************)
EXTENDS Integers, Sequences, FiniteSets, TLC

VARIABLES
    phase,        \* "start" | "ready" | "failed": position of the menu client
    menuObj,      \* the menu description last passed to MenuBar.fromJSONObjects
    actionsObj,   \* the menu actions description passed with it
    bar,          \* the MenuBar the client holds (Null before construction)
    heap,         \* the native ES6 Map objects allocated so far, by reference
    recv,         \* the MenuBar the last update was called on
    recvBefore,   \* what recv yielded right before that call
    lastOp,       \* the last operation and its arguments
    rules,        \* the rule results computed by the last updateMenuItems
    thrown,       \* the error the last operation threw (NoError if none)
    nops,         \* number of update operations chained so far
    command,      \* the layers command invoked, with its arguments
    hostCalls,    \* the host calls issued so far, in order, each with its state
    ticks,        \* the callbacks passed to process.nextTick that have not run
    log,          \* what happened, in order: calls, responses, dispatches
    promise,      \* the promise the command returned
    storePhase,   \* "start" | "ready" | "failed": the BoundsStore constructed
    storeActions, \* the handlers the BoundsStore bound, by event type
    layerBounds,  \* this._layerBounds: document ID -> layer ID -> Bounds
    changes,      \* number of "change" events the BoundsStore emitted
    lastEvent,    \* the event last dispatched to the BoundsStore
    boundsBefore, \* layerBounds right before that event
    changesBefore,\* changes right before that event
    nevents       \* number of events dispatched to the BoundsStore

menuVars == <<phase, menuObj, actionsObj, bar, heap, recv, recvBefore, lastOp,
              rules, thrown, nops>>

layerVars == <<command, hostCalls, ticks, log, promise>>

boundsVars == <<storePhase, storeActions, layerBounds, changes, lastEvent,
                boundsBefore, changesBefore, nevents>>

vars == <<menuVars, layerVars, boundsVars>>

(***************************************************************************)
(* Bounds                                                                  *)
(***************************************************************************)
MaxOps == 3
MaxEvents == 3

(***************************************************************************)
(* JavaScript values                                                       *)
(***************************************************************************)
Null == [t |-> "null"]
Undefined == [t |-> "undefined"]
TypeError == [t |-> "error", message |-> "TypeError"]
NoError == [t |-> "noerror"]
MissingMenuError == [t |-> "error", message |-> "Missing menu id and submenu"]

IsNullish(v) == v = Null \/ v = Undefined

DOT == "."
COMMA == ","

\* a one-token string
S(tok) == <<tok>>

\* a + "." + b
DotJoin(a, b) == a \o <<DOT>> \o b

Numerals == <<"0", "1", "2", "3", "4", "5", "6", "7", "8", "9">>

\* Number.prototype.toString for the indices the model reaches
NumStr(i) == <<Numerals[i + 1]>>

\* String.prototype.split(sep): the pieces between the separator tokens
RECURSIVE SplitFrom(_, _, _, _)
SplitFrom(str, sep, i, piece) ==
    IF i > Len(str) THEN <<piece>>
    ELSE IF str[i] = sep THEN <<piece>> \o SplitFrom(str, sep, i + 1, <<>>)
    ELSE SplitFrom(str, sep, i + 1, Append(piece, str[i]))

Split(str, sep) == SplitFrom(str, sep, 1, <<>>)

\* _.startsWith(str, prefix)
StartsWith(str, prefix) ==
    /\ Len(str) >= Len(prefix)
    /\ SubSeq(str, 1, Len(prefix)) = prefix

(***************************************************************************)
(* Maps (Immutable.Map and ES6 Map contents): functions from keys to       *)
(* values                                                                  *)
(***************************************************************************)
EmptyMap == [k \in {} |-> Null]

MapSet(m, k, v) == [x \in (DOMAIN m) \cup {k} |-> IF x = k THEN v ELSE m[x]]

\* Immutable.Map.prototype.get(key, notSetValue)
MapGet(m, k, notSet) == IF k \in DOMAIN m THEN m[k] ELSE notSet

\* the elements of a list
Range(xs) == {xs[i] : i \in 1..Len(xs)}

\* Immutable.List and Immutable.Map values held in a field that may be null
List(xs) == [t |-> "list", xs |-> xs]
IMap(m) == [t |-> "map", m |-> m]

\* the map that results from set(keyOf(x), x) for each x of xs in order
RootMapOf(xs) ==
    [k \in {xs[i].id : i \in 1..Len(xs)} |->
        xs[CHOOSE i \in 1..Len(xs) :
            /\ xs[i].id = k
            /\ \A j \in 1..Len(xs) : xs[j].id = k => j <= i]]

SubmenuMapOf(xs) ==
    [k \in {xs[i].itemID : i \in 1..Len(xs)} |->
        xs[CHOOSE i \in 1..Len(xs) :
            /\ xs[i].itemID = k
            /\ \A j \in 1..Len(xs) : xs[j].itemID = k => j <= i]]

(***************************************************************************)
(* MenuItem (js/models/menuitem.js is not among the sources: modelled from *)
(* the way menubar.js uses it)                                             *)
(***************************************************************************)
\* new MenuItem(descriptor): the fields given, the record's defaults else
MenuItem(id, itemID, label, checked, shortcut) ==
    [t |-> "item", id |-> id, itemID |-> itemID, label |-> label,
     command |-> id, enabled |-> TRUE, checked |-> checked,
     shortcut |-> shortcut, submenu |-> Null, submenuMap |-> Null]

\* MenuItem.fromDescriptor: ids are dot-joined paths (menubar.js:246, 276),
\* submenuMap is keyed by the last segment (menubar.js:403-410)
RECURSIVE fromDescriptor(_, _)
fromDescriptor(rawMenu, prefix) ==
    LET id == IF prefix = <<>> THEN rawMenu.id ELSE DotJoin(prefix, rawMenu.id)
        kids == [i \in 1..Len(rawMenu.submenu) |->
                    fromDescriptor(rawMenu.submenu[i], id)]
        base == MenuItem(id, rawMenu.id, rawMenu.id, 0, Null)
    IN  IF rawMenu.hasSubmenu
        THEN [base EXCEPT !.submenu = List(kids),
                          !.submenuMap = IMap(SubmenuMapOf(kids))]
        ELSE base

\* rules[rule] for every rule of the item (a rule that has no result is
\* undefined, hence falsy)
RulesHold(itemRules, ruleResults) ==
    \A i \in 1..Len(itemRules) :
        /\ Len(itemRules[i]) = 1
        /\ itemRules[i][1] \in DOMAIN ruleResults
        /\ ruleResults[itemRules[i][1]]

\* MenuItem.prototype._update: the item with its enablement recomputed, and
\* its submenu items updated likewise
RECURSIVE _update(_, _, _)
_update(item, enablers, ruleResults) ==
    LET newEnabled == RulesHold(MapGet(enablers, item.id, <<>>), ruleResults)
    IN  IF item.submenu = Null
        THEN [item EXCEPT !.enabled = newEnabled]
        ELSE LET kids == [i \in 1..Len(item.submenu.xs) |->
                             _update(item.submenu.xs[i], enablers, ruleResults)]
             IN  [item EXCEPT !.enabled = newEnabled,
                              !.submenu = List(kids),
                              !.submenuMap = IMap(SubmenuMapOf(kids))]

(***************************************************************************)
(* JSON objects: an object is the sequence of its own properties in        *)
(* insertion order, a property value a string or an object                 *)
(***************************************************************************)
Str(s) == [t |-> "str", s |-> s]
Obj(props) == [t |-> "obj", props |-> props]
Prop(k, v) == [k |-> k, v |-> v]

EnableRuleKey == "$enable-rule"
ActionKey == "$action"
PayloadKey == "$payload"

\* Object.prototype.hasOwnProperty (a string has none of these properties)
HasOwnProperty(o, name) ==
    /\ o.t = "obj"
    /\ \E i \in 1..Len(o.props) : o.props[i].k = name

GetProperty(o, name) ==
    o.props[CHOOSE i \in 1..Len(o.props) : o.props[i].k = name].v

\* the properties _.forEach visits
OwnProps(o) == IF o.t = "obj" THEN o.props ELSE <<>>

\* the value of an entry of MenuBar.actions
Action(name, payload) == [t |-> "action", action |-> name, payload |-> payload]

\* _processMenuActions(rawActions, actionMap, enablerMap, prefix): the two
\* maps after the properties of rawActions from the i-th on were visited
RECURSIVE _processMenuActions(_, _, _, _)
_processMenuActions(props, i, maps, prefix) ==
    IF i > Len(props) THEN maps
    ELSE
      LET prop == props[i].k
          descriptor == props[i].v
          id == IF prefix = <<>> THEN S(prop) ELSE DotJoin(prefix, S(prop))
          ruleArray == IF HasOwnProperty(descriptor, EnableRuleKey)
                       THEN Split(GetProperty(descriptor, EnableRuleKey).s, COMMA)
                       ELSE <<>>
          withRule == [maps EXCEPT !.enablers = MapSet(@, id, ruleArray)]
          after ==
            IF HasOwnProperty(descriptor, ActionKey)
            THEN [withRule EXCEPT !.actions = MapSet(@, id,
                    Action(GetProperty(descriptor, ActionKey),
                           IF HasOwnProperty(descriptor, PayloadKey)
                           THEN GetProperty(descriptor, PayloadKey)
                           ELSE Undefined))]
            ELSE IF prop # EnableRuleKey
            THEN _processMenuActions(OwnProps(descriptor), 1, withRule, id)
            ELSE withRule
      IN  _processMenuActions(props, i + 1, after, prefix)

(***************************************************************************)
(* Documents, as far as the menu bar reads them                            *)
(***************************************************************************)
\* the layers of a document: a group "G" holding "C", and a background "BG"
LayerNames == {"G", "C", "BG"}
isBackground(layer) == layer = "BG"
\* layers.ancestors(layer): the layer itself and the groups around it
ancestors(layer) == IF layer = "C" THEN {"C", "G"} ELSE {layer}
\* layers.selectedNormalized: the selection without the layers that have a
\* selected ancestor
selectedNormalized(layers) ==
    {l \in layers.selected :
        ~ \E a \in ancestors(l) : a # l /\ a \in layers.selected}

Layers(selected) == [t |-> "layers", selected |-> selected]
Document(id, name, layers) ==
    [t |-> "doc", id |-> id, name |-> name, layers |-> layers]

\* _buildRuleResults(openDocuments, document)
_buildRuleResults(openDocuments, document) ==
    LET hasLayers == document # Null /\ document.layers # Null
    IN  ("always" :> TRUE)
     @@ ("have-document" :> (document # Null))
     @@ ("layer-selected" :>
            (hasLayers /\ Cardinality(document.layers.selected) # 0))
     @@ ("layers-selected-2" :>
            (hasLayers /\ Cardinality(selectedNormalized(document.layers)) = 2))
     @@ ("layers-selected-2+" :>
            (hasLayers /\ Cardinality(selectedNormalized(document.layers)) > 1))
     @@ ("layers-selected-3+" :>
            (hasLayers /\ Cardinality(selectedNormalized(document.layers)) > 2))
     @@ ("no-background" :>
            (hasLayers /\ ~ \E l \in document.layers.selected : isBackground(l)))
     @@ ("no-nesting" :>
            (hasLayers /\ ~ \E l \in document.layers.selected :
                \E a \in ancestors(l) :
                    a # l /\ a \in document.layers.selected))
     @@ ("multiple-documents" :> (Len(openDocuments) > 1))

(***************************************************************************)
(* MenuBar                                                                 *)
(***************************************************************************)
\* the MenuBar record; rootMap is an Immutable.Map (IMap) or a reference to
\* a native Map of the heap
MenuBar(id, roots, enablers, actions, rootMap) ==
    [t |-> "menubar", id |-> id, roots |-> roots, enablers |-> enablers,
     actions |-> actions, rootMap |-> rootMap]

NativeMap(ref) == [t |-> "nativeMap", ref |-> ref]

\* the entries of this.rootMap
RootMapContents(b, h) ==
    IF b.rootMap.t = "map" THEN b.rootMap.m ELSE h[b.rootMap.ref]

\* this.rootMap.get(rootID, null): Immutable.Map gives the notSetValue for a
\* missing key, Map.prototype.get ignores the second argument
RootMapGet(b, h, rootID) ==
    IF b.rootMap.t = "map"
    THEN MapGet(b.rootMap.m, rootID, Null)
    ELSE MapGet(h[b.rootMap.ref], rootID, Undefined)

\* the forEach of getMenuItem, from the i-th segment on; reading submenuMap
\* of undefined, or get of a null submenuMap, throws
RECURSIVE Descend(_, _, _)
Descend(result, idSegments, i) ==
    IF i > Len(idSegments) THEN result
    ELSE IF result = Null THEN Descend(Null, idSegments, i + 1)
    ELSE IF result = Undefined \/ result.submenuMap = Null THEN TypeError
    ELSE Descend(MapGet(result.submenuMap.m, idSegments[i], Null),
                 idSegments, i + 1)

\* MenuBar.prototype.getMenuItem(menuID)
getMenuItem(b, h, menuID) ==
    LET idSegments == Split(menuID, DOT)
        rootID == Head(idSegments)
        rootItem == RootMapGet(b, h, rootID)
    IN  Descend(rootItem, Tail(idSegments), 1)

\* MenuBar.prototype.getMenuAction(menuID)
getMenuAction(b, menuID) == MapGet(b.actions.m, menuID, Undefined)

\* the test with "and" for "or", as the error message words it
MissingIdAndMenu(mo) == ~ mo.hasId /\ ~ mo.hasMenu

\* the test of MenuBar.fromJSONObjects
MissingIdOrMenu(mo) == ~ mo.hasId \/ ~ mo.hasMenu

\* MenuBar.fromJSONObjects(menuObj, menuActionsObj): the MenuBar, or the
\* error thrown
fromJSONObjects(mo, ao) ==
    IF MissingIdOrMenu(mo) THEN MissingMenuError
    ELSE
      LET roots == [i \in 1..Len(mo.menu) |-> fromDescriptor(mo.menu[i], <<>>)]
          maps == _processMenuActions(OwnProps(ao), 1,
                    [actions |-> EmptyMap, enablers |-> EmptyMap], <<>>)
      IN  MenuBar(mo.id, roots, IMap(maps.enablers), IMap(maps.actions),
                  IMap(RootMapOf(roots)))

\* the outcome of an update: the MenuBar returned, the heap afterwards, and
\* the error thrown instead (then no MenuBar is returned)
Outcome(b, h, err) == [bar |-> b, heap |-> h, thrown |-> err]

\* MenuBar.prototype.updateMenuItems(openDocuments, document)
updateMenuItems(b, h, openDocuments, document) ==
    LET ruleResults == _buildRuleResults(openDocuments, document)
        newRoots == [i \in 1..Len(b.roots) |->
                        _update(b.roots[i], b.enablers.m, ruleResults)]
        newRootMap == RootMapOf(newRoots)
    IN  Outcome([b EXCEPT !.roots = newRoots,
                          !.rootMap = NativeMap(Len(h) + 1)],
                Append(h, newRootMap), NoError)

\* findIndex giving the position counted from 1
FindIndexFromOne(xs, id) ==
    IF \E i \in 1..Len(xs) : xs[i].id = id
    THEN CHOOSE i \in 1..Len(xs) :
            /\ xs[i].id = id
            /\ \A j \in 1..(i - 1) : xs[j].id # id
    ELSE -1

\* Immutable.List.prototype.findIndex, 0-based, -1 when nothing matches
FindIndexById(xs, id) ==
    IF \E i \in 1..Len(xs) : xs[i].id = id
    THEN (CHOOSE i \in 1..Len(xs) :
            /\ xs[i].id = id
            /\ \A j \in 1..(i - 1) : xs[j].id # id) - 1
    ELSE -1

\* Immutable.List.prototype.set(index, value): a negative index counts from
\* the end, the index size appends
ListSet(xs, index, v) ==
    LET i == IF index < 0 THEN Len(xs) + index ELSE index
    IN  IF i >= 0 /\ i < Len(xs) THEN [xs EXCEPT ![i + 1] = v]
        ELSE IF i = Len(xs) THEN Append(xs, v)
        ELSE xs

\* this.rootMap.set(rootID, item): a new Immutable.Map, or the native Map
\* itself, changed in place
RootMapSet(b, h, rootID, item) ==
    IF b.rootMap.t = "map"
    THEN [rootMap |-> IMap(MapSet(b.rootMap.m, rootID, item)), heap |-> h]
    ELSE [rootMap |-> b.rootMap,
          heap |-> [h EXCEPT ![b.rootMap.ref] = MapSet(@, rootID, item)]]

\* pathUtil.getShortestUniquePaths (js/util/path is not among the sources):
\* the file name where it is unique among the files, the whole path else
BaseName(path) == <<path.s[Len(path.s)]>>
getShortestUniquePaths(files) ==
    [i \in 1..Len(files) |->
        IF \E j \in 1..Len(files) :
              j # i /\ BaseName(files[j]) = BaseName(files[i])
        THEN files[i].s
        ELSE BaseName(files[i])]

RecentFileMenuID == <<"FILE", DOT, "OPEN_RECENT">>
FileMenuID == <<"FILE">>
WindowMenuID == <<"WINDOW">>
OpenDocumentPrefix == <<"WINDOW", DOT, "OPEN_DOCUMENT", DOT>>

\* the key under which updateRecentFiles stores the new recent files menu in
\* the submenuMap of FILE
RecentFilesMapKey == RecentFileMenuID

\* the actions after newActions.set(ids[i], acts[i]) for each i in order (the
\* ids of distinct indices are distinct)
SetActions(actions, ids, acts) ==
    [k \in (DOMAIN actions) \cup Range(ids) |->
        IF k \in Range(ids)
        THEN acts[CHOOSE i \in 1..Len(ids) : ids[i] = k]
        ELSE actions[k]]

\* MenuBar.prototype.updateRecentFiles(files)
updateRecentFiles(b, h, files) ==
    LET fileMenu == getMenuItem(b, h, FileMenuID)
        recentFilesMenu == getMenuItem(b, h, RecentFileMenuID)
        shortestPathNames == getShortestUniquePaths(files)
        IdOf(i) == RecentFileMenuID \o <<DOT>> \o NumStr(i - 1)
        ActionOf(i) == Action(Str(S("documents.open")), files[i])
        recentFileItems ==
            [i \in 1..Len(files) |->
                MenuItem(IdOf(i), NumStr(i - 1), shortestPathNames[i], 0, Null)]
        newActions == SetActions(b.actions.m, [i \in 1..Len(files) |-> IdOf(i)],
                       [i \in 1..Len(files) |-> ActionOf(i)])
    IN  IF fileMenu = TypeError \/ recentFilesMenu = TypeError
           \/ IsNullish(recentFilesMenu) \/ IsNullish(fileMenu)
        THEN Outcome(b, h, TypeError)
        ELSE
          LET newRecentFilesMenu ==
                  [recentFilesMenu EXCEPT !.submenu = List(recentFileItems),
                                          !.enabled = Len(files) > 0]
              submenu == fileMenu.submenu.xs
              recentIndex == FindIndexById(submenu, RecentFileMenuID)
              newsubmenu == ListSet(submenu, recentIndex, newRecentFilesMenu)
              newsubmenuMap == MapSet(fileMenu.submenuMap.m, RecentFilesMapKey,
                                      newRecentFilesMenu)
              newFileMenu == [fileMenu EXCEPT !.submenu = List(newsubmenu),
                                              !.submenuMap = IMap(newsubmenuMap)]
              fileMenuIndex == FindIndexById(b.roots, FileMenuID)
              newRoots == ListSet(b.roots, fileMenuIndex, newFileMenu)
              set == RootMapSet(b, h, FileMenuID, newFileMenu)
          IN  Outcome([b EXCEPT !.roots = newRoots,
                                !.rootMap = set.rootMap,
                                !.actions = IMap(newActions)],
                      set.heap, NoError)

\* keyutil.modifiersToBits({command: true, option: true}), the same on Mac
\* and Windows
SwitchDocModifiers == [command |-> TRUE, option |-> TRUE]

\* the whole list taken, so that the items of earlier calls stay
TakeAll(xs, prefix) == xs

\* Immutable.List.prototype.takeUntil: the items before the first one whose
\* id starts with the prefix
RECURSIVE TakeUntilStartsWith(_, _)
TakeUntilStartsWith(xs, prefix) ==
    IF xs = <<>> \/ StartsWith(Head(xs).id, prefix) THEN <<>>
    ELSE <<Head(xs)>> \o TakeUntilStartsWith(Tail(xs), prefix)

\* MenuBar.prototype.updateOpenDocuments(documents, currentDocument);
\* documents is the list _.values gives
updateOpenDocuments(b, h, documents, currentDocument) ==
    LET windowMenu == getMenuItem(b, h, WindowMenuID)
        IdOf(i) == OpenDocumentPrefix \o NumStr(i - 1)
        ActionOf(i) == Action(Str(S("documents.selectDocument")), documents[i])
        openDocumentItems ==
            [i \in 1..Len(documents) |->
                MenuItem(IdOf(i), NumStr(i - 1), documents[i].name,
                         IF documents[i] = currentDocument THEN 1 ELSE 0,
                         IF i - 1 < 9
                         THEN [keyChar |-> NumStr(i), modifiers |-> SwitchDocModifiers]
                         ELSE Null)]
        newActions == SetActions(b.actions.m, [i \in 1..Len(documents) |-> IdOf(i)],
                       [i \in 1..Len(documents) |-> ActionOf(i)])
    IN  IF IsNullish(windowMenu) \/ windowMenu.submenu = Null
        THEN Outcome(b, h, TypeError)
        ELSE
          LET submenuStart == TakeUntilStartsWith(windowMenu.submenu.xs,
                                                  OpenDocumentPrefix)
              newsubmenu == submenuStart \o openDocumentItems
              newWindowMenu == [windowMenu EXCEPT !.submenu = List(newsubmenu)]
              windowMenuIndex == FindIndexById(b.roots, WindowMenuID)
              newRoots == ListSet(b.roots, windowMenuIndex, newWindowMenu)
              set == RootMapSet(b, h, WindowMenuID, newWindowMenu)
          IN  Outcome([b EXCEPT !.roots = newRoots,
                                !.rootMap = set.rootMap,
                                !.actions = IMap(newActions)],
                      set.heap, NoError)

(***************************************************************************)
(* The inputs the menu bar is driven with                                  *)
(***************************************************************************)
RawItem(id) == [id |-> S(id), hasSubmenu |-> FALSE, submenu |-> <<>>]
RawMenu(id, submenu) == [id |-> S(id), hasSubmenu |-> TRUE, submenu |-> submenu]

MenuA ==
    << RawMenu("FILE", <<RawItem("NEW"), RawMenu("OPEN_RECENT", <<>>)>>),
       RawMenu("WINDOW", <<RawItem("MINIMIZE"), RawItem("TILE")>>) >>
MenuB ==
    << RawMenu("WINDOW", <<RawItem("MINIMIZE")>>),
       RawMenu("EDIT", <<RawItem("UNDO")>>),
       RawMenu("FILE", <<RawMenu("OPEN_RECENT", <<>>), RawItem("NEW")>>) >>
\* a menu without the recent files menu and without WINDOW
MenuC ==
    << RawMenu("FILE", <<RawItem("NEW")>>) >>

MenuObject(hasId, hasMenu, menu) ==
    [hasId |-> hasId, id |-> IF hasId THEN Str(S("MENU")) ELSE Undefined,
     hasMenu |-> hasMenu, menu |-> menu]

MenuObjects ==
    {MenuObject(TRUE, TRUE, m) : m \in {MenuA, MenuB, MenuC}}
    \cup {MenuObject(FALSE, TRUE, MenuA), MenuObject(TRUE, FALSE, <<>>),
          MenuObject(FALSE, FALSE, <<>>)}

\* groups that carry an "$enable-rule" of their own, items with and without
ActionsA ==
    Obj(<< Prop("FILE", Obj(<<
              Prop(EnableRuleKey, Str(<<"always">>)),
              Prop("NEW", Obj(<<
                  Prop(ActionKey, Str(S("documents.createNew"))),
                  Prop(EnableRuleKey, Str(<<"always">>)) >>)),
              Prop("OPEN_RECENT", Obj(<<
                  Prop(EnableRuleKey, Str(<<"always">>)) >>)) >>)),
           Prop("WINDOW", Obj(<<
              Prop("MINIMIZE", Obj(<<
                  Prop(ActionKey, Str(S("ui.minimize"))),
                  Prop(PayloadKey, Str(S("window"))),
                  Prop(EnableRuleKey,
                       Str(<<"have-document", COMMA, "layer-selected">>)) >>)),
              Prop("TILE", Obj(<<
                  Prop(ActionKey, Str(S("ui.tile"))) >>)) >>)) >>)
\* no group carries a rule
ActionsB ==
    Obj(<< Prop("FILE", Obj(<<
              Prop("NEW", Obj(<<
                  Prop(ActionKey, Str(S("documents.createNew"))) >>)) >>)),
           Prop("EDIT", Obj(<<
              Prop("UNDO", Obj(<<
                  Prop(ActionKey, Str(S("edit.undo"))),
                  Prop(EnableRuleKey, Str(<<"have-document">>)) >>)) >>)) >>)

ActionsObjects == {ActionsA, ActionsB}

File1 == Str(<<"d1", "/", "a.psd">>)
File2 == Str(<<"d2", "/", "a.psd">>)
File3 == Str(<<"d1", "/", "b.psd">>)
FileLists == {<<>>, <<File1>>, <<File3, File2, File1>>}

DocA == Document("1", Str(S("a.psd")), Layers({"G", "C"}))
DocB == Document("2", Str(S("b.psd")), Null)
DocC == Document("3", Str(S("c.psd")), Layers({"BG", "G"}))
DocumentLists == {<<>>, <<DocA>>, <<DocB, DocC>>}


(***************************************************************************)
(* The menu client: constructs a MenuBar, then chains updates on the       *)
(* MenuBar it holds                                                        *)
(***************************************************************************)
\* what a MenuBar yields: its roots, the entries of its rootMap, its actions
View(b, h) ==
    [roots |-> b.roots, rootMap |-> RootMapContents(b, h),
     actions |-> b.actions]

MenuInit ==
    /\ phase = "start"
    /\ menuObj = Null
    /\ actionsObj = Null
    /\ bar = Null
    /\ heap = <<>>
    /\ recv = Null
    /\ recvBefore = Null
    /\ lastOp = [op |-> "none"]
    /\ rules = Null
    /\ thrown = NoError
    /\ nops = 0

FromJSONObjects(mo, ao) ==
    /\ phase = "start"
    /\ menuObj' = mo
    /\ actionsObj' = ao
    /\ lastOp' = [op |-> "fromJSONObjects"]
    /\ LET r == fromJSONObjects(mo, ao)
       IN  IF r.t = "error"
           THEN /\ thrown' = r
                /\ phase' = "failed"
                /\ bar' = bar
           ELSE /\ thrown' = NoError
                /\ phase' = "ready"
                /\ bar' = r
    /\ UNCHANGED <<heap, recv, recvBefore, rules, nops, layerVars, boundsVars>>

\* an update called on the MenuBar held; the client keeps the MenuBar the
\* update returns, and the one it held when the update throws
Apply(op, out) ==
    /\ phase = "ready"
    /\ nops < MaxOps
    /\ nops' = nops + 1
    /\ lastOp' = op
    /\ recv' = bar
    /\ recvBefore' = View(bar, heap)
    /\ bar' = out.bar
    /\ heap' = out.heap
    /\ thrown' = out.thrown
    /\ UNCHANGED <<phase, menuObj, actionsObj, layerVars, boundsVars>>

UpdateMenuItems(openDocuments, document) ==
    /\ Apply([op |-> "updateMenuItems", openDocuments |-> openDocuments,
              document |-> document],
             updateMenuItems(bar, heap, openDocuments, document))
    /\ rules' = _buildRuleResults(openDocuments, document)

UpdateRecentFiles(files) ==
    /\ Apply([op |-> "updateRecentFiles", files |-> files],
             updateRecentFiles(bar, heap, files))
    /\ UNCHANGED rules

UpdateOpenDocuments(documents, currentDocument) ==
    /\ Apply([op |-> "updateOpenDocuments", documents |-> documents,
              currentDocument |-> currentDocument],
             updateOpenDocuments(bar, heap, documents, currentDocument))
    /\ UNCHANGED rules

MenuNext ==
    \/ \E mo \in MenuObjects, ao \in ActionsObjects : FromJSONObjects(mo, ao)
    \/ \E ds \in DocumentLists : \E d \in {Null} \cup Range(ds) :
          UpdateMenuItems(ds, d)
    \/ \E fs \in FileLists : UpdateRecentFiles(fs)
    \/ \E ds \in DocumentLists : \E d \in {Null} \cup Range(ds) :
          UpdateOpenDocuments(ds, d)

(***************************************************************************)
(* Layer commands (js/actions/layers.js).  A command runs its synchronous  *)
(* part when invoked: it issues host calls, passes callbacks to            *)
(* process.nextTick and returns a promise.  The callbacks it attached run  *)
(* when the host answers.  The state of one invocation is the record       *)
(* [hostCalls, ticks, log, promise].                                       *)
(***************************************************************************)
NoCommand == [name |-> "none"]
NoPromise == [state |-> "none", value |-> Undefined]
HostError == [t |-> "error", message |-> "host"]

Idle == [hostCalls |-> <<>>, ticks |-> <<>>, log |-> <<>>, promise |-> NoPromise]

\* a call of the host adapter: descriptor.playObject, get, getProperty,
\* batchGetProperty or batchGetProperties; cont names the callback attached
Issue(st, api, arg, cont) ==
    [st EXCEPT
        !.hostCalls = Append(@, [api |-> api, arg |-> arg, cont |-> cont,
                                 state |-> "pending"]),
        !.log = Append(@, [e |-> "call", call |-> Len(st.hostCalls) + 1,
                           api |-> api])]

\* this.dispatch(type, payload)
Dispatch(st, type, payload) ==
    [st EXCEPT !.log = Append(@, [e |-> "dispatch", type |-> type,
                                  payload |-> payload])]

\* the callback called at once, not on the next tick
DispatchSynchronously(st, type, payload) == Dispatch(st, type, payload)

\* process.nextTick(function () { this.dispatch(type, payload); }, this)
NextTick(st, type, payload) ==
    [st EXCEPT !.ticks = Append(@, [type |-> type, payload |-> payload])]

\* the promise the command returns is created pending, and settles once
Pend(st) == [st EXCEPT !.promise = [state |-> "pending", value |-> Undefined]]

Settle(st, state, value) ==
    IF st.promise.state = "pending" \/ st.promise.state = "none"
    THEN [st EXCEPT !.promise = [state |-> state, value |-> value],
                    !.log = Append(@, [e |-> "settled", state |-> state])]
    ELSE st

\* a rejection no callback handles
Unhandled(st, c) ==
    [st EXCEPT !.log = Append(@, [e |-> "unhandled", call |-> c])]

\* adapter/lib/document and adapter/lib/layer references
DocumentRefById(id) == [ref |-> "document", id |-> id]
LayerRefById(id) == [ref |-> "layer", id |-> id]
LayerRefByIndex(i) == [ref |-> "layer", index |-> i]

\* Layer and Document models, as far as the commands read them
Layer(id) == [t |-> "layer", id |-> id, isBackground |-> FALSE]
BackgroundLayer(id) == [t |-> "layer", id |-> id, isBackground |-> TRUE]

\* a Document with its layers: all, selected, allSelected (the selected
\* layers with their descendants: the selected ones where no layer is a
\* group) and selectedLayersDeletable
DocumentModel(id, all, selected, selectedLayersDeletable) ==
    [t |-> "doc", id |-> id,
     layers |-> [all |-> all, selected |-> selected, allSelected |-> selected,
                 selectedLayersDeletable |-> selectedLayersDeletable]]

LayersDocument(id, all, selected) ==
    DocumentModel(id, all, selected,
                  selected # <<>> /\ Len(selected) < Len(all))
Num(n) == [t |-> "num", n |-> n]

\* collection.pluck(layers, "id")
PluckId(xs) == [i \in 1..Len(xs) |-> xs[i].id]

ModifierSelect == Str(<<"select">>)

\* !modifier || modifier === "select"
IsPlainSelect(modifier) == modifier = Undefined \/ modifier = ModifierSelect

\* selectLayerCommand(document, layerSpec, modifier), lines 204-231
selectLayerCommand(st, document, layerSpec, modifier) ==
    LET spec == IF layerSpec.t = "layer" THEN <<layerSpec>> ELSE layerSpec.xs
        payload == [documentID |-> document.id, selectedIDs |-> PluckId(spec)]
        s1 == IF IsPlainSelect(modifier)
              THEN NextTick(st, "SELECT_LAYERS_BY_ID", payload)
              ELSE st
        layerRef == <<DocumentRefById(document.id)>>
                    \o [i \in 1..Len(spec) |-> LayerRefById(spec[i].id)]
        selectObj == [command |-> "select", ref |-> layerRef,
                      makeVisible |-> FALSE, modifier |-> modifier]
    IN  Issue(Pend(s1), "playObject", selectObj, "select.played")

\* the callback of lines 232-241: the promise of getProperty is not returned
selectLayerPlayed(st, document, modifier) ==
    LET s1 == IF ~ IsPlainSelect(modifier)
              THEN Issue(st, "getProperty",
                         [ref |-> DocumentRefById(document.id),
                          property |-> "targetLayers"],
                         "select.targetLayers")
              ELSE st
    IN  Settle(s1, "resolved", Undefined)

\* the callback of lines 236-239
selectLayerTargetLayers(st, document, targetLayers) ==
    Dispatch(st, "SELECT_LAYERS_BY_INDEX",
             [documentID |-> document.id,
              selectedIndices |->
                 [i \in 1..Len(targetLayers) |-> targetLayers[i].index]])

\* a reorder that dispatches REORDER_LAYERS with the ids asked for before the
\* host has answered
reorderLayersOptimistic(st, documentID, layerSpec, targetIndex) ==
    LET spec == IF layerSpec.t = "list" THEN layerSpec.xs ELSE <<layerSpec>>
        ids == [i \in 1..Len(spec) |-> spec[i].n]
        layerRef == <<DocumentRefById(documentID)>>
                    \o [i \in 1..Len(spec) |-> LayerRefById(ids[i])]
        reorderObj == [command |-> "reorder", ref |-> layerRef,
                       target |-> LayerRefByIndex(targetIndex)]
    IN  Issue(Pend(NextTick(st, "REORDER_LAYERS",
                            [documentID |-> documentID, layerIDs |-> ids])),
              "playObject", reorderObj, "reorder.played")

\* reorderLayersCommand(documentID, layerSpec, targetIndex), lines 587-603
reorderLayersCommand(st, documentID, layerSpec, targetIndex) ==
    LET spec == IF layerSpec.t = "list" THEN layerSpec.xs ELSE <<layerSpec>>
        documentRef == DocumentRefById(documentID)
        layerRef == <<documentRef>>
                    \o [i \in 1..Len(spec) |-> LayerRefById(spec[i].n)]
        reorderObj == [command |-> "reorder", ref |-> layerRef,
                       target |-> LayerRefByIndex(targetIndex)]
    IN  Issue(Pend(st), "playObject", reorderObj, "reorder.played")

\* the callback of lines 605-606
reorderLayersPlayed(st, documentID) ==
    Issue(st, "get", [ref |-> DocumentRefById(documentID)], "reorder.document")

\* _.range(start, end, -1): start, start - 1, ..., end + 1
RangeDown(start, end) ==
    [k \in 1..(IF start > end THEN start - end ELSE 0) |-> start - k + 1]

\* _getLayerIDsForDocument(doc), lines 559-570, called at line 609
getLayerIDsForDocument(st, doc) ==
    LET layerCount == doc.numberOfLayers
        startIndex == IF doc.hasBackgroundLayer THEN 0 ELSE 1
        indices == RangeDown(layerCount, startIndex - 1)
        layerRefs == [k \in 1..Len(indices) |->
                        <<DocumentRefById(doc.documentID),
                          LayerRefByIndex(indices[k])>>]
    IN  Issue(st, "batchGetProperty",
              [refs |-> layerRefs, property |-> "layerID"], "reorder.layerIDs")

\* the callback of lines 610-617
reorderLayersGotIDs(st, documentID, layerIDs) ==
    Settle(Dispatch(st, "REORDER_LAYERS",
                    [documentID |-> documentID, layerIDs |-> layerIDs]),
           "resolved", Undefined)

\* groupSelectedLayersCommand(document), lines 366-374
groupSelectedLayersCommand(st, document) ==
    IF Len(document.layers.selected) = 0
    THEN Settle(st, "resolved", Undefined)
    ELSE Issue(Pend(st), "playObject", [command |-> "groupSelected"],
               "group.played")

\* the callback of lines 375-384
groupSelectedLayersPlayed(st, document, groupResult) ==
    Settle(Dispatch(st, "GROUP_SELECTED",
                    [documentID |-> document.id,
                     groupID |-> groupResult.layerSectionStart,
                     groupEndID |-> groupResult.layerSectionEnd,
                     groupname |-> groupResult.name]),
           "resolved", Undefined)

layerProperties ==
    << "layerID", "name", "visible", "layerLocking", "itemIndex", "background",
       "boundsNoEffects", "opacity", "layerFXVisible", "mode" >>

optionalLayerProperties ==
    << "adjustment", "AGMStrokeStyleInfo", "textKey", "layerKind",
       "keyOriginType", "fillEnabled", "fillOpacity", "layerEffects" >>

\* references.reduce(...) of lines 96-103 and 120-127: one {reference,
\* property} per reference and property, reference by reference
RefObjs(references, properties) ==
    [k \in 1..(Len(references) * Len(properties)) |->
        [reference |-> references[((k - 1) \div Len(properties)) + 1],
         property |-> properties[((k - 1) % Len(properties)) + 1]]]

\* _getLayersByRef(references), lines 95-158: both batches are requested at
\* once
getLayersByRef(st, references) ==
    Issue(Issue(st, "batchGetProperties",
                [refObjs |-> RefObjs(references, layerProperties),
                 continueOnError |-> FALSE], "reset.properties"),
          "batchGetProperties",
          [refObjs |-> RefObjs(references, optionalLayerProperties),
           continueOnError |-> TRUE], "reset.optional")

\* resetLayersCommand(document, layers), lines 166-174
resetLayersCommand(st, document, layers) ==
    getLayersByRef(Pend(st),
        [i \in 1..Len(layers.xs) |->
            <<DocumentRefById(document.id), LayerRefById(layers.xs[i].id)>>])

\* the reduce of lines 106-118: the values grouped into one object per
\* reference, by index % _layerProperties.length
GroupProperties(values) ==
    [r \in 1..(Len(values) \div Len(layerProperties)) |->
        [p \in Range(layerProperties) |->
            values[(r - 1) * Len(layerProperties)
                   + CHOOSE j \in 1..Len(layerProperties) :
                        layerProperties[j] = p]]]

\* the reduce of lines 133-148: value[property] of the values that are
\* objects with the property
GroupOptional(allResults) ==
    [r \in 1..(Len(allResults) \div Len(optionalLayerProperties)) |->
        LET at(p) == allResults[(r - 1) * Len(optionalLayerProperties)
                        + CHOOSE j \in 1..Len(optionalLayerProperties) :
                             optionalLayerProperties[j] = p]
        IN  [p \in {q \in Range(optionalLayerProperties) :
                        at(q) # Undefined /\ q \in DOMAIN at(q).own}
                |-> at(p).own[p]]]

\* the callbacks of Promise.join, lines 151-157, and of lines 176-190
resetLayersJoined(st, document, layers, values, allResults) ==
    LET allProperties == GroupProperties(values)
        allOptionalProperties == GroupOptional(allResults)
        descriptors == [i \in 1..Len(allProperties) |->
                           allOptionalProperties[i] @@ allProperties[i]]
        payload == [documentID |-> document.id,
                    layers |-> [i \in 1..Len(layers.xs) |->
                                   [layerID |-> layers.xs[i].id,
                                    descriptor |-> descriptors[i]]]]
    IN  Settle(Dispatch(st, "RESET_LAYERS", payload), "resolved", Undefined)

\* a host call issued for the sub-th of the promises a command waits for
IssueFor(st, api, arg, cont, sub) ==
    LET s1 == Issue(st, api, arg, cont)
    IN  [s1 EXCEPT !.hostCalls[Len(s1.hostCalls)] = [sub |-> sub] @@ @]

\* !document, for a document that is null or undefined
NoDocument(document) == document = Null \/ document = Undefined

\* a check for the document only, that lets a flat document through
NoDocumentOnly(doc) == NoDocument(doc)

\* !document || document.layers.all.isEmpty(), lines 285, 314 and 333
NoDocumentOrFlat(doc) == NoDocument(doc) \/ doc.layers.all = <<>>

\* lines 280-282, 309-311 and 328-330: the current document of the
\* application store when no document was passed
DocumentOrCurrent(document, currentDocument) ==
    IF document = Undefined THEN currentDocument ELSE document

\* renameLayerCommand(document, layer, newName), lines 253-271
renameLayerCommand(st, document, layer, newName) ==
    LET payload == [documentID |-> document.id, layerID |-> layer.id,
                    name |-> newName]
        layerRef == <<DocumentRefById(document.id), LayerRefById(layer.id)>>
        renameObj == [command |-> "rename", ref |-> layerRef, name |-> newName]
    IN  IssueFor(Pend(NextTick(st, "RENAME_LAYER", payload)),
                 "playObject", renameObj, "settle", 1)

\* deselectAllLayersCommand(document), lines 279-300
deselectAllLayersCommand(st, document, currentDocument) ==
    LET doc == DocumentOrCurrent(document, currentDocument)
    IN  IF NoDocumentOrFlat(doc)
        THEN Settle(st, "resolved", Undefined)
        ELSE IssueFor(Pend(NextTick(st, "SELECT_LAYERS_BY_ID",
                                    [documentID |-> doc.id,
                                     selectedIDs |-> <<>>])),
                      "playObject", [command |-> "deselectAll"], "settle", 1)

\* selectAllLayersCommand(document), lines 308-319
selectAllLayersCommand(st, document, currentDocument) ==
    LET doc == DocumentOrCurrent(document, currentDocument)
    IN  IF NoDocumentOrFlat(doc)
        THEN Settle(st, "resolved", Undefined)
        ELSE selectLayerCommand(st, doc, List(doc.layers.all), Undefined)

\* deleteSelectedLayersCommand(document), lines 327-358; what
\* locking.playWithLockOverride sends to the host is one call here
deleteSelectedLayersCommand(st, document, currentDocument) ==
    LET doc == DocumentOrCurrent(document, currentDocument)
    IN  IF NoDocumentOrFlat(doc)
           \/ ~ doc.layers.selectedLayersDeletable
        THEN Settle(st, "resolved", Undefined)
        ELSE LET layers == doc.layers.allSelected
                 payload == [documentID |-> doc.id,
                             layerIDs |-> PluckId(layers)]
             IN  IssueFor(Pend(NextTick(st, "DELETE_SELECTED", payload)),
                          "playWithLockOverride",
                          [command |-> "delete", ref |-> "current",
                           layerIDs |-> PluckId(layers), override |-> TRUE],
                          "settle", 1)

\* setVisibilityCommand(document, layer, visible), lines 413-430
setVisibilityCommand(st, document, layer, visible) ==
    LET payload == [documentID |-> document.id, layerID |-> layer.id,
                    visible |-> visible]
        layerRef == <<DocumentRefById(document.id), LayerRefById(layer.id)>>
    IN  IssueFor(Pend(NextTick(st, "VISIBILITY_CHANGED", payload)),
                 "playObject",
                 [command |-> IF visible THEN "show" ELSE "hide",
                  ref |-> layerRef],
                 "settle", 1)

\* setLockingCommand(document, layer, locked), lines 460-480, with
\* _unlockBackgroundLayer, lines 443-445, for a background layer; sub is the
\* position of its promise among those the caller waits for
setLockingCommand(st, document, layer, locked, sub) ==
    LET payload == [documentID |-> document.id, layerID |-> layer.id,
                    locked |-> locked]
        layerRef == <<DocumentRefById(document.id), LayerRefById(layer.id)>>
        s1 == NextTick(st, "LOCK_CHANGED", payload)
    IN  IF layer.isBackground
        THEN IssueFor(s1, "playObject",
                      [command |-> "unlockBackground", layerID |-> layer.id],
                      "unlockBackground.played", sub)
        ELSE IssueFor(s1, "playObject",
                      [command |-> "setLocking", ref |-> layerRef,
                       locked |-> locked],
                      "settle", sub)

\* the callback of lines 446-448: documents.updateDocument is one call here
unlockBackgroundPlayed(st, document, sub) ==
    IssueFor(st, "transfer",
             [command |-> "updateDocument", documentID |-> document.id],
             "settle", sub)

\* setOpacityCommand(document, layers, opacity), lines 490-517
setOpacityCommand(st, document, layers, opacity) ==
    LET payload == [documentID |-> document.id,
                    layerIDs |-> PluckId(layers.xs), opacity |-> opacity]
        playObjects == [i \in 1..Len(layers.xs) |->
                           [command |-> "setOpacity",
                            ref |-> <<DocumentRefById(document.id),
                                      LayerRefById(layers.xs[i].id)>>,
                            opacity |-> opacity]]
    IN  IssueFor(Pend(NextTick(st, "OPACITY_CHANGED", payload)),
                 "playWithLockOverride",
                 [command |-> "setOpacity", playObjects |-> playObjects,
                  layerIDs |-> PluckId(layers.xs), override |-> FALSE],
                 "settle", 1)

\* setBlendModeCommand(document, layers, mode), lines 630-658
setBlendModeCommand(st, document, layers, mode) ==
    LET layerIDs == PluckId(layers.xs)
        layerRef == <<DocumentRefById(document.id)>>
                    \o [i \in 1..Len(layerIDs) |-> LayerRefById(layerIDs[i])]
        payload == [documentID |-> document.id, layerIDs |-> layerIDs,
                    mode |-> mode]
    IN  IssueFor(Pend(NextTick(st, "BLEND_MODE_CHANGED", payload)),
                 "playWithLockOverride",
                 [command |-> "setBlendMode", ref |-> layerRef, mode |-> mode,
                  layerIDs |-> layerIDs, override |-> FALSE],
                 "settle", 1)

\* currentDocument.layers.selected.map(...) of lines 534-536: setLocking is
\* started for each of the first n selected layers, in order
RECURSIVE LockEach(_, _, _, _)
LockEach(st, currentDocument, locked, n) ==
    IF n = 0 THEN st
    ELSE setLockingCommand(LockEach(st, currentDocument, locked, n - 1),
                           currentDocument,
                           currentDocument.layers.selected[n], locked, n)

\* _setLockingInCurrentDocument(locked), lines 526-539
setLockingInCurrentDocument(st, currentDocument, locked) ==
    IF NoDocument(currentDocument)
    THEN Settle(st, "resolved", Undefined)
    ELSE LET n == Len(currentDocument.layers.selected)
             s1 == LockEach(Pend(st), currentDocument, locked, n)
         IN  IF n = 0 THEN Settle(s1, "resolved", List(<<>>)) ELSE s1

\* the calls that settle the sub-th promise of those Promise.all waits for
SettlingCalls(st, sub) ==
    {c \in 1..Len(st.hostCalls) :
        st.hostCalls[c].cont = "settle" /\ st.hostCalls[c].sub = sub}

\* resolved as soon as one of the promises has resolved
promiseFirst(st, n) == Settle(st, "resolved", List(<<>>))

\* Promise.all(lockPromises), line 538: resolved with the values in order
\* once each of the n promises has resolved
promiseAll(st, n) ==
    IF \A k \in 1..n : \E c \in SettlingCalls(st, k) :
                           st.hostCalls[c].state = "resolved"
    THEN Settle(st, "resolved",
                List([k \in 1..n |->
                        st.hostCalls[CHOOSE c \in SettlingCalls(st, k) :
                                        TRUE].value]))
    ELSE st

\* the promise of the host call is the promise returned, or one of those
\* Promise.all waits for
promiseSettled(cmd, st, value) ==
    IF cmd.name \in {"lockSelected", "unlockSelected"}
    THEN promiseAll(st, Len(cmd.document.layers.selected))
    ELSE Settle(st, "resolved", value)

\* what the callbacks attached to host call c do when the host resolves it
OnResolved(cmd, st, c, value) ==
    LET cont == st.hostCalls[c].cont
    IN  CASE cont = "select.played" ->
                selectLayerPlayed(st, cmd.document, cmd.modifier)
          [] cont = "select.targetLayers" ->
                selectLayerTargetLayers(st, cmd.document, value)
          [] cont = "reorder.played" ->
                reorderLayersPlayed(st, cmd.documentID)
          [] cont = "reorder.document" ->
                getLayerIDsForDocument(st, value)
          [] cont = "reorder.layerIDs" ->
                reorderLayersGotIDs(st, cmd.documentID, value)
          [] cont = "group.played" ->
                groupSelectedLayersPlayed(st, cmd.document, value)
          [] cont = "settle" -> promiseSettled(cmd, st, value)
          [] cont = "unlockBackground.played" ->
                unlockBackgroundPlayed(st, cmd.document, st.hostCalls[c].sub)
          [] cont \in {"reset.properties", "reset.optional"} ->
                LET other == IF cont = "reset.properties" THEN c + 1 ELSE c - 1
                IN  IF st.hostCalls[other].state = "resolved"
                    THEN resetLayersJoined(st, cmd.document, cmd.layers,
                            st.hostCalls[IF c < other THEN c ELSE other].value,
                            st.hostCalls[IF c < other THEN other ELSE c].value)
                    ELSE st

\* and when the host rejects it: the rejection runs down the chain to the
\* promise returned, except from the getProperty of select, whose promise
\* nothing returns
OnRejected(cmd, st, c) ==
    IF st.hostCalls[c].cont = "select.targetLayers"
    THEN Unhandled(st, c)
    ELSE Settle(st, "rejected", HostError)

(***************************************************************************)
(* The host: what it may answer to a call                                  *)
(***************************************************************************)
HostLayerIDs == {10, 11, 12}

TargetLayerLists ==
    { <<>>, <<LayerRefByIndex(2)>>, <<LayerRefByIndex(1), LayerRefByIndex(3)>> }

HostDocuments(ref) ==
    { [documentID |-> ref.id, numberOfLayers |-> 2, hasBackgroundLayer |-> b]
        : b \in BOOLEAN }

GroupResults ==
    { [layerSectionStart |-> 21, layerSectionEnd |-> 22, name |-> "Group 1"] }

\* which of the optional properties the layers asked for have
OptionalPresent == { {}, {"textKey", "layerKind"} }

Responses(call) ==
    CASE call.api = "playObject" /\ call.arg.command = "groupSelected" ->
            GroupResults
      [] call.api = "playObject" /\ call.arg.command # "groupSelected" ->
            {Undefined}
      [] call.api = "playWithLockOverride" -> {Undefined}
      [] call.api = "transfer" -> {Undefined}
      [] call.api = "getProperty" -> TargetLayerLists
      [] call.api = "get" -> HostDocuments(call.arg.ref)
      [] call.api = "batchGetProperty" ->
            {ids \in [1..Len(call.arg.refs) -> HostLayerIDs] :
                \A i, j \in 1..Len(call.arg.refs) : i # j => ids[i] # ids[j]}
      [] call.api = "batchGetProperties" /\ ~ call.arg.continueOnError ->
            { [k \in 1..Len(call.arg.refObjs) |->
                    [of |-> call.arg.refObjs[k]]] }
      [] call.api = "batchGetProperties" /\ call.arg.continueOnError ->
            { [k \in 1..Len(call.arg.refObjs) |->
                    IF call.arg.refObjs[k].property \in present
                    THEN [t |-> "object",
                          own |-> [p \in {call.arg.refObjs[k].property} |->
                                      [of |-> call.arg.refObjs[k]]]]
                    ELSE Undefined]
                : present \in OptionalPresent }

(***************************************************************************)
(* One invocation of a layers command                                      *)
(***************************************************************************)
LayersInit ==
    /\ command = NoCommand
    /\ hostCalls = <<>>
    /\ ticks = <<>>
    /\ log = <<>>
    /\ promise = NoPromise

Current == [hostCalls |-> hostCalls, ticks |-> ticks, log |-> log,
            promise |-> promise]

Commit(st) ==
    /\ hostCalls' = st.hostCalls
    /\ ticks' = st.ticks
    /\ log' = st.log
    /\ promise' = st.promise

Invoke(cmd, st) ==
    /\ command = NoCommand
    /\ command' = cmd
    /\ Commit(st)
    /\ UNCHANGED <<menuVars, boundsVars>>

SelectLayer(document, layerSpec, modifier) ==
    Invoke([name |-> "select", document |-> document,
            layerSpec |-> layerSpec, modifier |-> modifier],
           selectLayerCommand(Idle, document, layerSpec, modifier))

ReorderLayers(documentID, layerSpec, targetIndex) ==
    Invoke([name |-> "reorder", documentID |-> documentID,
            layerSpec |-> layerSpec, targetIndex |-> targetIndex],
           reorderLayersCommand(Idle, documentID, layerSpec, targetIndex))

GroupSelected(document) ==
    Invoke([name |-> "groupSelected", document |-> document],
           groupSelectedLayersCommand(Idle, document))

ResetLayers(document, layers) ==
    Invoke([name |-> "resetLayers", document |-> document, layers |-> layers],
           resetLayersCommand(Idle, document, layers))

RenameLayer(document, layer, newName) ==
    Invoke([name |-> "rename", document |-> document, layer |-> layer,
            newName |-> newName],
           renameLayerCommand(Idle, document, layer, newName))

DeselectAll(document, currentDocument) ==
    Invoke([name |-> "deselectAll", passed |-> document,
            document |-> DocumentOrCurrent(document, currentDocument)],
           deselectAllLayersCommand(Idle, document, currentDocument))

SelectAll(document, currentDocument) ==
    Invoke([name |-> "selectAll", passed |-> document,
            document |-> DocumentOrCurrent(document, currentDocument),
            modifier |-> Undefined],
           selectAllLayersCommand(Idle, document, currentDocument))

DeleteSelected(document, currentDocument) ==
    Invoke([name |-> "deleteSelected", passed |-> document,
            document |-> DocumentOrCurrent(document, currentDocument)],
           deleteSelectedLayersCommand(Idle, document, currentDocument))

SetVisibility(document, layer, visible) ==
    Invoke([name |-> "setVisibility", document |-> document, layer |-> layer,
            visible |-> visible],
           setVisibilityCommand(Idle, document, layer, visible))

SetLocking(document, layer, locked) ==
    Invoke([name |-> "setLocking", document |-> document, layer |-> layer,
            locked |-> locked],
           setLockingCommand(Pend(Idle), document, layer, locked, 1))

SetOpacity(document, layers, opacity) ==
    Invoke([name |-> "setOpacity", document |-> document, layers |-> layers,
            opacity |-> opacity],
           setOpacityCommand(Idle, document, layers, opacity))

SetBlendMode(document, layers, mode) ==
    Invoke([name |-> "setBlendMode", document |-> document, layers |-> layers,
            mode |-> mode],
           setBlendModeCommand(Idle, document, layers, mode))

\* lockSelectedInCurrentDocumentCommand, lines 546-548
LockSelectedInCurrentDocument(currentDocument) ==
    Invoke([name |-> "lockSelected", document |-> currentDocument,
            locked |-> TRUE],
           setLockingInCurrentDocument(Idle, currentDocument, TRUE))

\* unlockSelectedInCurrentDocumentCommand, lines 555-557
UnlockSelectedInCurrentDocument(currentDocument) ==
    Invoke([name |-> "unlockSelected", document |-> currentDocument,
            locked |-> FALSE],
           setLockingInCurrentDocument(Idle, currentDocument, FALSE))

\* the next callback passed to process.nextTick runs
Tick ==
    /\ ticks # <<>>
    /\ Commit(Dispatch([Current EXCEPT !.ticks = Tail(ticks)],
                       Head(ticks).type, Head(ticks).payload))
    /\ UNCHANGED <<menuVars, boundsVars, command>>

\* the host answers a call; callbacks passed to process.nextTick run before
\* the answer of the host is delivered
HostAnswers(c, outcome, value) ==
    /\ hostCalls[c].state = "pending"
    /\ ticks = <<>>
    /\ LET answered ==
             [Current EXCEPT
                !.hostCalls[c] = [state |-> outcome, value |-> value] @@ @,
                !.log = Append(@, [e |-> "response", call |-> c,
                                   outcome |-> outcome])]
       IN  Commit(IF outcome = "resolved"
                  THEN OnResolved(command, answered, c, value)
                  ELSE OnRejected(command, answered, c))
    /\ UNCHANGED <<menuVars, boundsVars, command>>

HostResolves(c, value) == HostAnswers(c, "resolved", value)

HostRejects(c) == HostAnswers(c, "rejected", HostError)

LayerA == Layer(11)
LayerB == Layer(12)
DocumentWithSelection == LayersDocument(1, <<LayerA, LayerB>>, <<LayerA>>)
DocumentWithoutSelection == LayersDocument(1, <<LayerA, LayerB>>, <<>>)

LayerSpecs == {LayerA, List(<<LayerB>>), List(<<LayerA, LayerB>>)}
Modifiers == {Undefined, ModifierSelect, Str(<<"add">>), Str(<<"deselect">>)}
LayerIDSpecs == {Num(11), List(<<Num(11), Num(12)>>)}
TargetIndices == {0, 2}

LayerBG == BackgroundLayer(10)
FlatDocument == DocumentModel(2, <<>>, <<>>, FALSE)
DocumentAllSelected ==
    DocumentModel(3, <<LayerA, LayerB>>, <<LayerA, LayerB>>, FALSE)
DocumentWithBackground ==
    DocumentModel(4, <<LayerA, LayerB, LayerBG>>, <<LayerB, LayerBG>>, TRUE)

\* the documents a command is passed, or finds current
Documents ==
    {DocumentWithSelection, DocumentWithoutSelection, FlatDocument,
     DocumentAllSelected, DocumentWithBackground}
PassedDocuments == {Undefined, Null} \cup Documents
CurrentDocuments == {Null} \cup Documents

LayersNext ==
    \/ \E ls \in LayerSpecs, m \in Modifiers :
          SelectLayer(DocumentWithSelection, ls, m)
    \/ \E ls \in LayerIDSpecs, ti \in TargetIndices : ReorderLayers(1, ls, ti)
    \/ \E d \in {DocumentWithSelection, DocumentWithoutSelection} :
          GroupSelected(d)
    \/ \E ls \in {List(<<LayerA>>), List(<<LayerA, LayerB>>)} :
          ResetLayers(DocumentWithSelection, ls)
    \/ RenameLayer(DocumentWithSelection, LayerA, Str(<<"Sky">>))
    \/ \E d \in PassedDocuments, cd \in CurrentDocuments : DeselectAll(d, cd)
    \/ \E d \in PassedDocuments, cd \in CurrentDocuments : SelectAll(d, cd)
    \/ \E d \in PassedDocuments, cd \in CurrentDocuments :
          DeleteSelected(d, cd)
    \/ \E v \in BOOLEAN : SetVisibility(DocumentWithSelection, LayerA, v)
    \/ \E ly \in {LayerA, LayerBG}, lk \in BOOLEAN :
          SetLocking(DocumentWithBackground, ly, lk)
    \/ \E ls \in {List(<<LayerA>>), List(<<LayerA, LayerB>>)} :
          SetOpacity(DocumentWithSelection, ls, 50)
    \/ \E ls \in {List(<<LayerA>>), List(<<LayerA, LayerB>>)} :
          SetBlendMode(DocumentWithSelection, ls, Str(<<"multiply">>))
    \/ \E cd \in CurrentDocuments : LockSelectedInCurrentDocument(cd)
    \/ \E cd \in CurrentDocuments : UnlockSelectedInCurrentDocument(cd)
    \/ Tick
    \/ \E c \in 1..Len(hostCalls) : \E v \in Responses(hostCalls[c]) :
          HostResolves(c, v)
    \/ \E c \in 1..Len(hostCalls) : HostRejects(c)

(***************************************************************************)
(* BoundsStore (js/stores/bounds.js), a Fluxxor store                      *)
(***************************************************************************)
DOCUMENT_UPDATED == "DOCUMENT_UPDATED"
CURRENT_DOCUMENT_UPDATED == "CURRENT_DOCUMENT_UPDATED"
RESET_DOCUMENTS == "RESET_DOCUMENTS"

\* the properties of the object passed to Fluxxor.createStore
StoreMethods ==
    {"initialize", "getState", "getDocumentBounds", "getLayerBounds",
     "_resetDocumentLayerBounds"}

\* this.<name>: the function of that name, undefined when there is none
Method(name) ==
    IF name \in StoreMethods THEN [t |-> "function", name |-> name]
    ELSE Undefined

\* the arguments of this.bindActions, lines 35-39
Bindings ==
    << <<DOCUMENT_UPDATED, Method("_resetDocumentLayerBounds")>>,
       <<CURRENT_DOCUMENT_UPDATED, Method("_updateDocumentLayers")>>,
       <<RESET_DOCUMENTS, Method("_resetDocumentLayerBounds")>> >>

\* Fluxxor's bindActions from the i-th pair on: each handler is stored under
\* its event type; a Fluxxor that checks its handlers throws at one that is
\* falsy, one that does not stores it
RECURSIVE bindActions(_, _, _, _)
bindActions(table, pairs, i, checksHandlers) ==
    IF i > Len(pairs) THEN [actions |-> table, thrown |-> FALSE]
    ELSE IF checksHandlers /\ pairs[i][2] = Undefined
    THEN [actions |-> table, thrown |-> TRUE]
    ELSE bindActions(MapSet(table, pairs[i][1], pairs[i][2]), pairs, i + 1,
                     checksHandlers)

\* new Bounds(layerObj): js/models/bounds is not among the sources
Bounds(layerObj) == [t |-> "Bounds", of |-> layerObj.bounds]

\* the reduce of lines 60-63 continued from a map that is not empty
MergeBounds(boundsMap, layerArray) ==
    [id \in (DOMAIN boundsMap) \cup {layerArray[i].layerID :
                                        i \in 1..Len(layerArray)} |->
        IF \E i \in 1..Len(layerArray) : layerArray[i].layerID = id
        THEN Bounds(layerArray[CHOOSE i \in 1..Len(layerArray) :
                /\ layerArray[i].layerID = id
                /\ \A j \in 1..Len(layerArray) :
                      layerArray[j].layerID = id => j <= i])
        ELSE boundsMap[id]]

\* layerArray.reduce(function (boundsMap, layerObj) {...}, {}), lines 60-63;
\* previous is the map the document had
ReduceBounds(previous, layerArray) == MergeBounds(EmptyMap, layerArray)

\* the forEach of lines 55-64, from the i-th document of the payload on
RECURSIVE ResetEach(_, _, _)
ResetEach(bounds, documents, i) ==
    IF i > Len(documents) THEN bounds
    ELSE LET docObj == documents[i]
             documentID == docObj.document.documentID
             layerArray == docObj.layers
         IN  ResetEach(MapSet(bounds, documentID,
                              ReduceBounds(MapGet(bounds, documentID, EmptyMap),
                                           layerArray)),
                       documents, i + 1)

\* _resetDocumentLayerBounds(payload), lines 54-67
resetDocumentLayerBounds(bounds, emitted, payload) ==
    [layerBounds |-> ResetEach(bounds, payload.documents, 1),
     changes |-> emitted + 1]

\* getLayerBounds(documentID, layerID), lines 50-52
getLayerBounds(bounds, documentID, layerID) ==
    IF documentID \notin DOMAIN bounds THEN TypeError
    ELSE MapGet(bounds[documentID], layerID, Undefined)

\* Fluxxor's dispatch of an action to the store: the handler bound for the
\* type is called, a type without handler is ignored
handleAction(table, bounds, emitted, type, payload) ==
    LET handler == MapGet(table, type, Undefined)
    IN  IF handler = Method("_resetDocumentLayerBounds")
        THEN resetDocumentLayerBounds(bounds, emitted, payload)
        ELSE [layerBounds |-> bounds, changes |-> emitted]

\* raw layers and documents as the events carry them
LayerObj(layerID, top, bottom) ==
    [layerID |-> layerID,
     bounds |-> [top |-> top, left |-> 0, bottom |-> bottom, right |-> 100]]
DocObj(documentID, layers) ==
    [document |-> [documentID |-> documentID], layers |-> layers]

DocObjs ==
    { DocObj(1, <<LayerObj(11, 0, 10), LayerObj(12, 10, 20)>>),
      DocObj(1, <<LayerObj(11, 5, 15)>>),
      DocObj(1, <<>>),
      DocObj(2, <<LayerObj(21, 0, 10)>>) }

\* payloads of up to two documents with distinct IDs
Payloads ==
    { [documents |-> ds] :
        ds \in {<<>>} \cup { <<d>> : d \in DocObjs }
                \cup { <<d, e>> : d \in {x \in DocObjs : x.document.documentID = 1},
                                  e \in {x \in DocObjs : x.document.documentID = 2} } }

EventTypes == {DOCUMENT_UPDATED, CURRENT_DOCUMENT_UPDATED, RESET_DOCUMENTS}

BoundsInit ==
    /\ storePhase = "start"
    /\ storeActions = EmptyMap
    /\ layerBounds = EmptyMap
    /\ changes = 0
    /\ lastEvent = [type |-> "none"]
    /\ boundsBefore = EmptyMap
    /\ changesBefore = 0
    /\ nevents = 0

\* the store is constructed: initialize(), lines 32-40
Initialize(checksHandlers) ==
    /\ storePhase = "start"
    /\ LET bound == bindActions(EmptyMap, Bindings, 1, checksHandlers)
       IN  /\ storeActions' = bound.actions
           /\ storePhase' = IF bound.thrown THEN "failed" ELSE "ready"
    /\ layerBounds' = EmptyMap
    /\ UNCHANGED <<changes, lastEvent, boundsBefore, changesBefore, nevents,
                   menuVars, layerVars>>

\* an event is dispatched to the store
HandleEvent(type, payload) ==
    /\ storePhase = "ready"
    /\ nevents < MaxEvents
    /\ LET after == handleAction(storeActions, layerBounds, changes, type,
                                 payload)
       IN  /\ layerBounds' = after.layerBounds
           /\ changes' = after.changes
    /\ lastEvent' = [type |-> type, payload |-> payload]
    /\ boundsBefore' = layerBounds
    /\ changesBefore' = changes
    /\ nevents' = nevents + 1
    /\ UNCHANGED <<storePhase, storeActions, menuVars, layerVars>>

BoundsNext ==
    \/ \E checksHandlers \in BOOLEAN : Initialize(checksHandlers)
    \/ \E type \in EventTypes, payload \in Payloads : HandleEvent(type, payload)

(***************************************************************************)
(* Specifications                                                          *)
(***************************************************************************)
Init == MenuInit /\ LayersInit /\ BoundsInit

MenuSpec == Init /\ [][MenuNext]_vars

LayersSpec == Init /\ [][LayersNext]_vars

BoundsSpec == Init /\ [][BoundsNext]_vars

(***************************************************************************)
(* Properties of the menu bar                                             *)
(***************************************************************************)
\* the items of a menu tree
RECURSIVE ItemsOf(_)
ItemsOf(item) ==
    {item} \cup
    (IF item.submenu = Null THEN {}
     ELSE UNION {ItemsOf(item.submenu.xs[i]) : i \in 1..Len(item.submenu.xs)})

TreeItems(roots) == UNION {ItemsOf(roots[i]) : i \in 1..Len(roots)}

\* the first item of a list that has the id (the list is known to hold one)
ItemWithId(xs, id) ==
    xs[CHOOSE i \in 1..Len(xs) :
        xs[i].id = id /\ \A j \in 1..(i - 1) : xs[j].id # id]

HasItemWithId(xs, id) == \E i \in 1..Len(xs) : xs[i].id = id

UpdateOps == {"updateMenuItems", "updateRecentFiles", "updateOpenDocuments"}

\* ids looked up: roots, static items, dynamic items, and ids no item has,
\* with a missing root segment and with a missing later segment
ProbeIDs ==
    { <<"FILE">>, <<"WINDOW">>, <<"NOPE">>, <<"NOPE", DOT, "X">>,
      <<"FILE", DOT, "NEW">>, <<"FILE", DOT, "NOPE">>,
      <<"FILE", DOT, "NOPE", DOT, "X">>,
      RecentFileMenuID, RecentFileMenuID \o <<DOT, "0">>,
      <<"WINDOW", DOT, "MINIMIZE">>, OpenDocumentPrefix \o <<"0">> }

\* C1: on every MenuBar reached, getMenuItem(menuID) returns the item of the
\* menu tree whose id is menuID, and null, without throwing, when no item
\* has that id
C1_GetMenuItemReturnsItemOrNull ==
    bar # Null =>
        \A id \in ProbeIDs :
            LET r == getMenuItem(bar, heap, id)
                found == {x \in TreeItems(bar.roots) : x.id = id}
            IN  /\ r # TypeError
                /\ IF found # {} THEN r \in found ELSE r = Null

\* C2: fromJSONObjects throws "Missing menu id and submenu" and constructs
\* no MenuBar when the menu object lacks id or menu; else it returns a
\* MenuBar with the object's id and one root per entry of menu, in order
C2_FromJSONObjectsThrowsOrBuilds ==
    lastOp.op = "fromJSONObjects" =>
        IF ~ menuObj.hasId \/ ~ menuObj.hasMenu
        THEN thrown = MissingMenuError /\ bar = Null
        ELSE /\ thrown = NoError
             /\ bar.t = "menubar"
             /\ bar.id = menuObj.id
             /\ Len(bar.roots) = Len(menuObj.menu)
             /\ \A i \in 1..Len(menuObj.menu) :
                    /\ bar.roots[i].t = "item"
                    /\ bar.roots[i].id = menuObj.menu[i].id

C2_Witness ==
    /\ lastOp.op = "fromJSONObjects"
    /\ menuObj.hasId /\ ~ menuObj.hasMenu
    /\ thrown = MissingMenuError

\* the recent files menu as it sits in the submenu list of the FILE root
RecentMenuInRoots(roots) ==
    ItemWithId(ItemWithId(roots, FileMenuID).submenu.xs, RecentFileMenuID)

\* C3: after updateRecentFiles(files) returned, the submenu of
\* FILE.OPEN_RECENT in the FILE root has exactly one item per file, item i
\* with id FILE.OPEN_RECENT.<i> and mapped in actions to documents.open of
\* files[i], and the menu is enabled iff files is not empty
C3_RecentFilesReplaced ==
    (lastOp.op = "updateRecentFiles" /\ thrown = NoError) =>
        LET files == lastOp.files
            recent == RecentMenuInRoots(bar.roots)
        IN  /\ recent.submenu # Null
            /\ Len(recent.submenu.xs) = Len(files)
            /\ \A i \in 1..Len(files) :
                 LET id == <<"FILE", DOT, "OPEN_RECENT", DOT, Numerals[i]>>
                 IN  /\ recent.submenu.xs[i].id = id
                     /\ getMenuAction(bar, id) =
                          Action(Str(<<"documents.open">>), files[i])
            /\ recent.enabled = (files # <<>>)

\* a call with one file on a MenuBar whose recent files menu held three
C3_Witness ==
    /\ lastOp.op = "updateRecentFiles" /\ thrown = NoError
    /\ Len(lastOp.files) = 1
    /\ Len(RecentMenuInRoots(recvBefore.roots).submenu.xs) = 3

\* C4: after updateRecentFiles(files) returned, getMenuItem of
\* FILE.OPEN_RECENT returns the item that sits in the submenu list of the
\* FILE root: the one whose submenu lists exactly the given files
C4_RecentMenuLookupAgreesWithTree ==
    (lastOp.op = "updateRecentFiles" /\ thrown = NoError) =>
        LET r == getMenuItem(bar, heap, RecentFileMenuID)
        IN  /\ r.t = "item"
            /\ r.id = RecentFileMenuID
            /\ r.submenu = RecentMenuInRoots(bar.roots).submenu
            /\ Len(r.submenu.xs) = Len(lastOp.files)

\* the items of a list before the first one whose id is an open document id
StaticPrefix(xs) ==
    LET dyn == {i \in 1..Len(xs) : StartsWith(xs[i].id, OpenDocumentPrefix)}
    IN  IF dyn = {} THEN xs
        ELSE SubSeq(xs, 1, (CHOOSE i \in dyn : \A j \in dyn : i <= j) - 1)

WindowSubmenu(roots) == ItemWithId(roots, WindowMenuID).submenu.xs

\* the ids of the items the menu description gives WINDOW
StaticWindowIds ==
    LET raw == menuObj.menu[CHOOSE i \in 1..Len(menuObj.menu) :
                                menuObj.menu[i].id = WindowMenuID]
    IN  [i \in 1..Len(raw.submenu) |-> DotJoin(WindowMenuID, raw.submenu[i].id)]

\* C5: after updateOpenDocuments(documents, current) returned, the WINDOW
\* submenu is the items that preceded the first open document item, in
\* order, followed by one item per document; so it holds as many open
\* document items as the latest call had documents, after all the static
\* items of the menu description
C5_OpenDocumentsReplaced ==
    (lastOp.op = "updateOpenDocuments" /\ thrown = NoError) =>
        LET docs == lastOp.documents
            old == WindowSubmenu(recvBefore.roots)
            static == StaticPrefix(old)
            new == WindowSubmenu(bar.roots)
        IN  /\ Len(new) = Len(static) + Len(docs)
            /\ SubSeq(new, 1, Len(static)) = static
            /\ \A i \in 1..Len(docs) :
                 /\ new[Len(static) + i].id =
                      <<"WINDOW", DOT, "OPEN_DOCUMENT", DOT, Numerals[i]>>
                 /\ new[Len(static) + i].label = docs[i].name
            /\ Cardinality({i \in 1..Len(new) :
                    StartsWith(new[i].id, OpenDocumentPrefix)}) = Len(docs)
            /\ [i \in 1..Len(static) |-> static[i].id] = StaticWindowIds

\* a call with one document on a MenuBar whose WINDOW menu listed two
C5_Witness ==
    /\ lastOp.op = "updateOpenDocuments" /\ thrown = NoError
    /\ Len(lastOp.documents) = 1
    /\ Len(WindowSubmenu(recvBefore.roots)) = Len(StaticWindowIds) + 2

\* C6: an update leaves the MenuBar it was called on unchanged: its roots,
\* rootMap and actions yield afterwards what they yielded before
C6_ReceiverUnchanged ==
    lastOp.op \in UpdateOps => View(recv, heap) = recvBefore

\* C7: the rule results hold a boolean for each of the rules "always",
\* "have-document", "layer-selected" and "multiple-layers-selected"
C7_RuleResultsHaveCurrentRules ==
    rules # Null =>
        \A r \in {"always", "have-document", "layer-selected",
                  "multiple-layers-selected"} :
            r \in DOMAIN rules /\ rules[r] \in BOOLEAN

ReservedKeys == {EnableRuleKey, ActionKey, PayloadKey}

\* the dot-joined paths of the groups and items of an actions description,
\* each with the description of the group or item
RECURSIVE MenuPaths(_, _)
MenuPaths(props, prefix) ==
    UNION { LET id == IF prefix = <<>> THEN S(props[i].k)
                      ELSE DotJoin(prefix, S(props[i].k))
            IN  {[id |-> id, descriptor |-> props[i].v]}
                \cup MenuPaths(OwnProps(props[i].v), id)
          : i \in {j \in 1..Len(props) : props[j].k \notin ReservedKeys} }

\* C8: the keys of enablers are exactly the paths of the groups and items of
\* the actions description, each mapped to its "$enable-rule" split on
\* commas, or to the empty list
C8_EnablersKeyedByMenuItems ==
    bar # Null =>
        LET paths == MenuPaths(OwnProps(actionsObj), <<>>)
        IN  /\ DOMAIN bar.enablers.m = {p.id : p \in paths}
            /\ \A p \in paths :
                 bar.enablers.m[p.id] =
                    IF HasOwnProperty(p.descriptor, EnableRuleKey)
                    THEN Split(GetProperty(p.descriptor, EnableRuleKey).s, COMMA)
                    ELSE <<>>

(***************************************************************************)
(* Properties of the layers commands                                       *)
(***************************************************************************)
\* the positions of the log at which an event of the type was dispatched
DispatchesOf(type) ==
    {i \in 1..Len(log) : log[i].e = "dispatch" /\ log[i].type = type}

\* the positions of the log at which the promise returned settled
Settlements == {i \in 1..Len(log) : log[i].e = "settled"}

\* the positions of the log at which the host resolved call c
ResolutionsOf(c) ==
    {i \in 1..Len(log) : /\ log[i].e = "response" /\ log[i].call = c
                         /\ log[i].outcome = "resolved"}

\* nothing of the invocation is left to run
Quiescent ==
    /\ ticks = <<>>
    /\ \A c \in 1..Len(hostCalls) : hostCalls[c].state # "pending"

SelectedLayers ==
    IF command.layerSpec.t = "layer" THEN <<command.layerSpec>>
    ELSE command.layerSpec.xs

\* C9: a select that succeeded and has nothing left to run has dispatched
\* one kind of selection event: without modifier or with "select",
\* SELECT_LAYERS_BY_ID once with the ids of the given layers and no
\* SELECT_LAYERS_BY_INDEX; with another modifier no SELECT_LAYERS_BY_ID and
\* SELECT_LAYERS_BY_INDEX once, after the host select call resolved, with
\* the indices of the host's targetLayers
C9_SelectDispatchesOneKind ==
    (command.name = "select" /\ promise.state = "resolved" /\ Quiescent) =>
        LET byID == DispatchesOf("SELECT_LAYERS_BY_ID")
            byIndex == DispatchesOf("SELECT_LAYERS_BY_INDEX")
        IN  IF IsPlainSelect(command.modifier)
            THEN /\ Cardinality(byID) = 1
                 /\ \A i \in byID :
                       log[i].payload.selectedIDs = PluckId(SelectedLayers)
                 /\ byIndex = {}
            ELSE /\ byID = {}
                 /\ Cardinality(byIndex) = 1
                 /\ \A i \in byIndex :
                       /\ \E r \in ResolutionsOf(1) : r < i
                       /\ \E c \in 1..Len(hostCalls) :
                             /\ hostCalls[c].api = "getProperty"
                             /\ hostCalls[c].state = "resolved"
                             /\ log[i].payload.selectedIndices =
                                   [k \in 1..Len(hostCalls[c].value) |->
                                       hostCalls[c].value[k].index]

\* the commands that dispatch their store event after a host response
DispatchesAfterHost ==
    \/ command.name \in {"reorder", "groupSelected", "resetLayers"}
    \/ command.name = "select" /\ ~ IsPlainSelect(command.modifier)

StoreEvent ==
    CASE command.name = "select" -> "SELECT_LAYERS_BY_INDEX"
      [] command.name = "reorder" -> "REORDER_LAYERS"
      [] command.name = "groupSelected" -> "GROUP_SELECTED"
      [] command.name = "resetLayers" -> "RESET_LAYERS"

\* C10: for select with a modifier other than "select", reorder,
\* groupSelected and resetLayers, once they have called the host, the promise
\* returned resolves only after the store event was dispatched, and is
\* rejected once a host call of the command was rejected
C10_PromiseFollowsDispatch ==
    (DispatchesAfterHost /\ hostCalls # <<>>) =>
        /\ promise.state = "resolved" =>
              \E i \in DispatchesOf(StoreEvent) :
                 \E j \in Settlements : i < j
        /\ (\E c \in 1..Len(hostCalls) : hostCalls[c].state = "rejected") =>
              promise.state = "rejected"

\* C11: the promise a reorder returned resolves to the layer IDs that
\* REORDER_LAYERS carried
C11_ReorderResolvesToLayerIDs ==
    (command.name = "reorder" /\ promise.state = "resolved") =>
        \E i \in DispatchesOf("REORDER_LAYERS") :
            promise.value = List(log[i].payload.layerIDs)

\* the positions of the log at which host call c was issued
IssuesOf(c) == {i \in 1..Len(log) : log[i].e = "call" /\ log[i].call = c}

\* C12: when the host rejects the reorder, the promise of the reorder command
\* is rejected and no REORDER_LAYERS is dispatched; REORDER_LAYERS is
\* dispatched at most once, after the host reorder resolved, with the layer
\* IDs that a host call issued after the reorder resolved with
C12_ReorderDispatchesAfterHost ==
    command.name = "reorder" =>
        /\ hostCalls[1].state = "rejected" =>
              /\ promise.state = "rejected"
              /\ DispatchesOf("REORDER_LAYERS") = {}
        /\ Cardinality(DispatchesOf("REORDER_LAYERS")) <= 1
        /\ \A i \in DispatchesOf("REORDER_LAYERS") :
              \E r \in ResolutionsOf(1) :
                 /\ r < i
                 /\ \E c \in 1..Len(hostCalls) :
                       /\ hostCalls[c].api = "batchGetProperty"
                       /\ hostCalls[c].state = "resolved"
                       /\ \A k \in IssuesOf(c) : r < k
                       /\ log[i].payload.layerIDs = hostCalls[c].value

\* the host rejected the reorder, and nothing is left to run
C12_Witness ==
    /\ command.name = "reorder"
    /\ hostCalls[1].state = "rejected"
    /\ promise.state = "rejected"
    /\ Quiescent

\* the invocation issued no host call, passed no callback to
\* process.nextTick and dispatched nothing
NothingDone ==
    /\ hostCalls = <<>>
    /\ ticks = <<>>
    /\ \A i \in 1..Len(log) : log[i].e \notin {"call", "dispatch"}

\* C13: deselectAll, selectAll and deleteSelected resolve without a host
\* call and without dispatching when there is no document (none passed and
\* none current) or the document has no layers, and deleteSelected also
\* when the selection of the document is not deletable
C13_NothingWithoutLayers ==
    (/\ command.name \in {"deselectAll", "selectAll", "deleteSelected"}
     /\ \/ NoDocument(command.document)
        \/ command.document.layers.all = <<>>
        \/ /\ command.name = "deleteSelected"
           /\ ~ command.document.layers.selectedLayersDeletable)
    => (promise.state = "resolved" /\ NothingDone)

\* deleteSelected on a document with layers whose selection is not deletable
C13_Witness ==
    /\ command.name = "deleteSelected"
    /\ ~ NoDocument(command.document)
    /\ command.document.layers.all # <<>>
    /\ ~ command.document.layers.selectedLayersDeletable
    /\ promise.state = "resolved"

\* the invocations that dispatch their store event optimistically
Optimistic ==
    \/ command.name \in {"rename", "setVisibility", "setLocking",
                         "setOpacity", "setBlendMode"}
    \/ command.name \in {"deselectAll", "deleteSelected"} /\ hostCalls # <<>>
    \/ command.name = "select" /\ command.modifier = Undefined

OptimisticEvent ==
    CASE command.name = "rename" -> "RENAME_LAYER"
      [] command.name = "setVisibility" -> "VISIBILITY_CHANGED"
      [] command.name = "setLocking" -> "LOCK_CHANGED"
      [] command.name = "setOpacity" -> "OPACITY_CHANGED"
      [] command.name = "setBlendMode" -> "BLEND_MODE_CHANGED"
      [] command.name = "deselectAll" -> "SELECT_LAYERS_BY_ID"
      [] command.name = "deleteSelected" -> "DELETE_SELECTED"
      [] command.name = "select" -> "SELECT_LAYERS_BY_ID"

HostRejected == \E c \in 1..Len(hostCalls) : hostCalls[c].state = "rejected"

\* C15: an optimistic command dispatches its store event once, on the next
\* tick: after its host call was issued and before any response of the host;
\* once the host has rejected a call the event has been dispatched, the
\* promise returned is rejected, and nothing else was dispatched
C15_OptimisticDispatch ==
    Optimistic =>
        LET events == DispatchesOf(OptimisticEvent)
        IN  /\ Cardinality(events) = IF ticks = <<>> THEN 1 ELSE 0
            /\ \A i \in 1..Len(log) : log[i].e = "dispatch" => i \in events
            /\ \A i \in events :
                  /\ \E k \in IssuesOf(1) : k < i
                  /\ \A j \in 1..Len(log) : log[j].e = "response" => i < j
            /\ HostRejected =>
                  (Cardinality(events) = 1 /\ promise.state = "rejected")

\* the host rejected the call of an optimistic command
C15_Witness ==
    /\ Optimistic
    /\ HostRejected
    /\ promise.state = "rejected"
    /\ DispatchesOf(OptimisticEvent) # {}

\* the LOCK_CHANGED events dispatched for a layer with a locked value
LockChangedFor(layer, locked) ==
    {i \in DispatchesOf("LOCK_CHANGED") :
        /\ log[i].payload.layerID = layer.id
        /\ log[i].payload.locked = locked}

\* C16: lockSelectedInCurrentDocument and unlockSelectedInCurrentDocument do
\* nothing without a current document; else, with n selected layers, a host
\* call is issued for each of them before any answer of the host, once the
\* ticks have run n LOCK_CHANGED were dispatched, one per selected layer with
\* the locked value asked for, the promise returned is resolved only when
\* the promise of each layer has resolved, and is rejected once a host call
\* was rejected
C16_LockSelectedInCurrentDocument ==
    command.name \in {"lockSelected", "unlockSelected"} =>
        IF NoDocument(command.document)
        THEN promise.state = "resolved" /\ NothingDone
        ELSE LET selected == command.document.layers.selected
                 n == Len(selected)
             IN  /\ \A k \in 1..n :
                       \E c \in 1..Len(hostCalls) :
                          /\ hostCalls[c].sub = k
                          /\ \A i \in IssuesOf(c) :
                                \A j \in 1..Len(log) :
                                   log[j].e = "response" => i < j
                 /\ Cardinality(DispatchesOf("LOCK_CHANGED")) + Len(ticks) = n
                 /\ ticks = <<>> =>
                       \A k \in 1..n :
                          Cardinality(LockChangedFor(selected[k],
                                                     command.locked)) = 1
                 /\ promise.state = "resolved" =>
                       \A k \in 1..n :
                          \E c \in 1..Len(hostCalls) :
                             /\ hostCalls[c].sub = k
                             /\ hostCalls[c].cont = "settle"
                             /\ hostCalls[c].state = "resolved"
                 /\ HostRejected => promise.state = "rejected"

\* two layers were selected, and the promise returned has resolved
C16_Witness ==
    /\ command.name \in {"lockSelected", "unlockSelected"}
    /\ ~ NoDocument(command.document)
    /\ Len(command.document.layers.selected) = 2
    /\ Cardinality(DispatchesOf("LOCK_CHANGED")) = 2
    /\ promise.state = "resolved"

(***************************************************************************)
(* Properties of the bounds store                                          *)
(***************************************************************************)
\* for every document of the payload of the last event, the store returns
\* the bounds built from the payload for each layer of the payload, and
\* undefined for each layer it had cached for the document that the payload
\* lacks; one "change" was emitted
SyncedWithPayload ==
    /\ \A d \in 1..Len(lastEvent.payload.documents) :
          LET docObj == lastEvent.payload.documents[d]
              documentID == docObj.document.documentID
              inPayload == {docObj.layers[i].layerID :
                               i \in 1..Len(docObj.layers)}
              cachedBefore == IF documentID \in DOMAIN boundsBefore
                              THEN DOMAIN boundsBefore[documentID] ELSE {}
          IN  /\ \A i \in 1..Len(docObj.layers) :
                    getLayerBounds(layerBounds, documentID,
                                   docObj.layers[i].layerID)
                       = Bounds(docObj.layers[i])
              /\ \A id \in cachedBefore \ inPayload :
                    getLayerBounds(layerBounds, documentID, id) = Undefined
    /\ changes = changesBefore + 1

\* C14: after DOCUMENT_UPDATED or RESET_DOCUMENTS was handled, getLayerBounds
\* returns for every document of the payload the bounds built from the
\* payload for the layers of the payload and undefined for the layers cached
\* before that the payload lacks, and exactly one "change" was emitted
C14_BoundsFollowPayload ==
    lastEvent.type \in {DOCUMENT_UPDATED, RESET_DOCUMENTS} => SyncedWithPayload

\* a document was updated with fewer layers than were cached for it
C14_Witness ==
    /\ lastEvent.type = DOCUMENT_UPDATED
    /\ \E d \in 1..Len(lastEvent.payload.documents) :
          LET docObj == lastEvent.payload.documents[d]
              documentID == docObj.document.documentID
          IN  /\ documentID \in DOMAIN boundsBefore
              /\ docObj.layers # <<>>
              /\ \E id \in DOMAIN boundsBefore[documentID] :
                    \A i \in 1..Len(docObj.layers) :
                       docObj.layers[i].layerID # id

\* C17: after RESET_DOCUMENTS was handled the store caches layer bounds for
\* exactly the documents of the payload
C17_ResetKeepsOnlyPayloadDocuments ==
    lastEvent.type = RESET_DOCUMENTS =>
        DOMAIN layerBounds =
           {lastEvent.payload.documents[d].document.documentID :
               d \in 1..Len(lastEvent.payload.documents)}

\* C18: the store that was constructed has bound a function for
\* CURRENT_DOCUMENT_UPDATED, and after that event was dispatched the bounds
\* cached follow the payload and one "change" was emitted, as for
\* DOCUMENT_UPDATED
C18_CurrentDocumentUpdatedHandled ==
    storePhase # "start" =>
        /\ storePhase = "ready"
        /\ CURRENT_DOCUMENT_UPDATED \in DOMAIN storeActions
        /\ storeActions[CURRENT_DOCUMENT_UPDATED] # Undefined
        /\ lastEvent.type = CURRENT_DOCUMENT_UPDATED => SyncedWithPayload

====
